---- MODULE Spec2Model ----
(***************************************************************************)
(* parseMicrodata (src/unnamed/part_001): extraction of a linked-data      *)
(* graph from the itemscope/itemprop/itemref markup of a document.         *)
(*                                                                         *)
(* Strings are sequences of tokens (a token is an atomic run of            *)
(* characters), so startsWith, slice and concatenation are computed on     *)
(* the string itself.  Elements are numbered 1..n in document order        *)
(* (preorder), element 1 being document.documentElement.                   *)
(*                                                                         *)
(* ProcessTracker (src/src/utils/processTracker.js) and the /render and    *)
(* /progress routes (src/src/routes/renderRoute.js): the file-backed flag  *)
(* written around every tracked render, under overlapping requests.        *)
(***************************************************************************)
EXTENDS Integers, Sequences, FiniteSets, TLC

VARIABLES
    doc,               \* the parsed document (dom.window.document) and html.length
    opt,               \* the options argument
    pc,                \* "start" | "build" | "done" | "failed" | "overflow"
    items,             \* const items = collectItems()
    nextItem,          \* position of the for..of loop over items (line 497)
    contextBase,       \* const contextBase (line 222)
    elementToId,       \* Map element -> id
    elementToNode,     \* Map element -> node (a position in nodeById)
    nodeById,          \* Map id -> node, in insertion order
    blankCounter,      \* let blankCounter
    totalItempropSeen, \* let totalItempropSeen
    stack,             \* the active buildItem invocations, innermost last
    result,            \* the returned value
    error,             \* the thrown error
    idCalls,           \* history: the (element, id) of every getItemId call, in order
    addLog,            \* history: every addProperty call made by buildItem
    invocations,       \* history: number of buildItem invocations started
    maxDepthSeen,      \* history: deepest nesting of buildItem invocations
    file,              \* content of the tracker's process file (this.filePath)
    call,              \* the track(fn) calls: position, fn's outcome, track's outcome
    progress,          \* the value sent by the last GET /progress
    lastWrite          \* history: the call and value of the last completed writeFile

parseVars == <<doc, opt, pc, items, nextItem, contextBase, elementToId, elementToNode,
               nodeById, blankCounter, totalItempropSeen, stack, result, error,
               idCalls, addLog, invocations, maxDepthSeen>>

trackerVars == <<file, call, progress, lastWrite>>

vars == <<parseVars, trackerVars>>

-----------------------------------------------------------------------------
(* Bounds of the model *)

\* elements of a generated document, the root included
NumElems == 4
\* depth of nested buildItem invocations the model follows before it reports
\* the call stack as exhausted
MaxStack == 6

-----------------------------------------------------------------------------
(* Strings *)

Infinity == -1

EmptyStr == <<>>
StartsWith(s, p) == Len(p) <= Len(s) /\ SubSeq(s, 1, Len(p)) = p
Slice(s, n) == SubSeq(s, n + 1, Len(s))
Truthy(s) == s # EmptyStr

Range(s) == {s[i] : i \in DOMAIN s}

\* largest index (1-based) of token t in s, 0 when absent
LastIndexOf(s, t) ==
    LET hits == {i \in DOMAIN s : s[i] = t}
    IN  IF hits = {} THEN 0 ELSE CHOOSE i \in hits : \A j \in hits : j <= i

Max2(a, b) == IF a >= b THEN a ELSE b

\* " " is the whitespace token
RECURSIVE TrimStart(_)
TrimStart(s) == IF s # <<>> /\ Head(s) = " " THEN TrimStart(Tail(s)) ELSE s
RECURSIVE TrimEnd(_)
TrimEnd(s) ==
    IF s # <<>> /\ s[Len(s)] = " " THEN TrimEnd(SubSeq(s, 1, Len(s) - 1)) ELSE s
Trim(s) == TrimEnd(TrimStart(s))

Digits == <<"1", "2", "3", "4", "5", "6", "7", "8", "9">>
\* String(n) for the counters the model reaches
NumStr(n) == IF n \in DOMAIN Digits THEN <<Digits[n]>> ELSE <<"9+">>

\* "/" and "#" are tokens of their own, so "//" is two tokens
schemaOrgHttp == <<"http:", "/", "/", "schema.org", "/">>
schemaOrgHttps == <<"https:", "/", "/", "schema.org", "/">>
schemaOrgContext == <<"https:", "/", "/", "schema.org">>
\* null and undefined
Null == <<"%null">>
unsafePropertyKeys == {<<"__proto__">>, <<"constructor">>, <<"prototype">>}
Schemes == {"http:", "https:", "mailto:", "tel:", "javascript:", "data:"}

IdKey == <<"@id">>
TypeKey == <<"@type">>

-----------------------------------------------------------------------------
(* Options *)

defaultLimits ==
    [maxHtmlLength |-> 10000000, maxItems |-> 10000, maxItemRefIds |-> 1000,
     maxPropertyElementsPerItem |-> 50000, maxTotalPropertyElements |-> 200000]

noLimits ==
    [maxHtmlLength |-> Infinity, maxItems |-> Infinity, maxItemRefIds |-> Infinity,
     maxPropertyElementsPerItem |-> Infinity, maxTotalPropertyElements |-> Infinity]

defaultUrlPolicy ==
    [allowedSchemes |-> {"http:", "https:", "mailto:", "tel:"},
     allowRelative |-> TRUE, allowProtocolRelative |-> FALSE,
     allowUnsafeSchemes |-> FALSE]

\* limits: "none" stands for limits === false || limits === null, otherwise
\* the record { ...defaultLimits, ...limits }
defaultOptions ==
    [baseUrl |-> Null, compact |-> TRUE, alwaysGraph |-> FALSE,
     onLimit |-> "throw", unlimited |-> FALSE, limits |-> defaultLimits,
     urlPolicy |-> defaultUrlPolicy]

effectiveLimits == IF opt.unlimited THEN noLimits ELSE opt.limits

\* a ceiling test that reports the breach one increment late
ExceedsLate(n, max) == max # Infinity /\ n > max + 1

\* n > max, for a ceiling that may be Infinity
Exceeds(n, max) == max # Infinity /\ n > max

limitError(kind, max, actual) ==
    [code |-> "MICRODATA_LIMIT_EXCEEDED", kind |-> kind, max |-> max, actual |-> actual]
NoError == [code |-> "", kind |-> "", max |-> 0, actual |-> 0]

\* a handleLimit that throws under every policy
LimitThrowsAlways == TRUE

\* handleLimit returns false under "truncate" and throws otherwise
LimitThrows == opt.onLimit # "truncate"

-----------------------------------------------------------------------------
(* The document tree *)

Elems == 1..doc.n
Root == 1

parentElement(e) == doc.parent[e]

RECURSIVE Ancestors(_)
\* the proper ancestors of e
Ancestors(e) ==
    IF parentElement(e) = 0 THEN {}
    ELSE {parentElement(e)} \cup Ancestors(parentElement(e))

RECURSIVE InDocumentOrder(_)
\* the elements of set S as a sequence in document order
InDocumentOrder(S) ==
    IF S = {} THEN <<>>
    ELSE LET m == CHOOSE e \in S : \A f \in S : e <= f
         IN  <<m>> \o InDocumentOrder(S \ {m})

\* elements of the subtree under r, r excluded, in document order: what a
\* TreeWalker rooted at r visits
Descendants(r) == InDocumentOrder({d \in Elems : r \in Ancestors(d)})

hasItemscope(e) == doc.scope[e]
hasItemprop(e) == doc.hasProp[e]

RECURSIVE DedupeTokens(_, _)
DedupeTokens(tokens, seen) ==
    IF tokens = <<>> THEN <<>>
    ELSE IF Head(tokens) \in seen THEN DedupeTokens(Tail(tokens), seen)
    ELSE <<Head(tokens)>> \o DedupeTokens(Tail(tokens), seen \cup {Head(tokens)})

\* an attribute is held already split at whitespace; tokenize drops repeats
tokenize(value) == DedupeTokens(value, {})

getElementById(id) ==
    LET hits == {e \in Elems : doc.id[e] = id}
    IN  IF hits = {} THEN 0 ELSE CHOOSE e \in hits : \A f \in hits : e <= f

-----------------------------------------------------------------------------
(* URLs and vocabulary *)

\* new URL(value) succeeds: the value starts with a scheme
isAbsoluteUrl(value) == value # EmptyStr /\ Head(value) \in Schemes

\* let parsedBaseUrl: the base when new URL(baseUrl) parses it, else null
parsedBaseUrl ==
    IF opt.baseUrl # Null /\ Truthy(opt.baseUrl) /\ isAbsoluteUrl(opt.baseUrl)
    THEN opt.baseUrl ELSE Null

\* new URL(value, base).toString(): an absolute value stands, "//host" takes
\* the base's scheme, anything else is appended to the base's directory
ResolveAgainst(value, base) ==
    IF isAbsoluteUrl(value) THEN value
    ELSE IF StartsWith(value, <<"/", "/">>) THEN <<Head(base)>> \o value
    ELSE SubSeq(base, 1, LastIndexOf(base, "/")) \o value

resolveUrl(value) ==
    IF value = Null \/ ~Truthy(value) THEN Null
    ELSE IF parsedBaseUrl = Null THEN value
    ELSE ResolveAgainst(Trim(value), parsedBaseUrl)

\* a scheme check that lets every absolute URL through
sanitizeAbsoluteUrlAny(value) == value

sanitizeAbsoluteUrl(value) ==
    IF Head(value) \in opt.urlPolicy.allowedSchemes THEN value ELSE Null

sanitizeUrl(value) ==
    IF value = Null \/ ~Truthy(value) THEN Null
    ELSE IF opt.urlPolicy.allowUnsafeSchemes THEN value
    ELSE LET raw == Trim(value)
         IN  IF ~Truthy(raw) THEN Null
             ELSE IF StartsWith(raw, <<"/", "/">>)
                  THEN IF opt.urlPolicy.allowProtocolRelative THEN raw ELSE Null
             ELSE IF isAbsoluteUrl(raw) THEN sanitizeAbsoluteUrl(raw)
             ELSE IF opt.urlPolicy.allowRelative THEN raw ELSE Null

normalizeSchemaOrg(url) ==
    IF StartsWith(url, schemaOrgHttp)
    THEN schemaOrgHttps \o Slice(url, Len(schemaOrgHttp))
    ELSE url

getTypeBase(typeUrl) ==
    IF typeUrl = Null \/ ~Truthy(typeUrl) THEN Null
    ELSE IF StartsWith(typeUrl, schemaOrgHttp) \/ StartsWith(typeUrl, schemaOrgHttps)
         THEN schemaOrgHttps
    ELSE LET cutIndex == Max2(LastIndexOf(typeUrl, "#"), LastIndexOf(typeUrl, "/"))
         IN  IF cutIndex = 0 THEN Null ELSE SubSeq(typeUrl, 1, cutIndex)

getItemTypes(el) ==
    LET raw == tokenize(doc.itemtype[el])
    IN  [i \in DOMAIN raw |-> normalizeSchemaOrg(raw[i])]

getItemVocabBase(el) ==
    LET types == getItemTypes(el)
    IN  IF Len(types) = 0 THEN Null ELSE getTypeBase(types[1])

\* the type identifiers of the collected items, item by item
RECURSIVE AllTypes(_)
AllTypes(its) ==
    IF its = <<>> THEN <<>> ELSE getItemTypes(Head(its)) \o AllTypes(Tail(its))

RECURSIVE FirstTypes(_)
FirstTypes(its) ==
    IF its = <<>> THEN <<>>
    ELSE (IF getItemTypes(Head(its)) = <<>> THEN <<>> ELSE <<getItemTypes(Head(its))[1]>>)
         \o FirstTypes(Tail(its))

\* a common base computed from the first declared type of every item only
computeCommonVocabBaseFirst(its) ==
    LET types == FirstTypes(its)
        bases == {getTypeBase(types[i]) : i \in DOMAIN types}
    IN  IF Null \in bases THEN Null
        ELSE IF Cardinality(bases) = 1 THEN CHOOSE b \in bases : TRUE
        ELSE Null

computeCommonVocabBase(its) ==
    LET types == AllTypes(its)
        bases == {getTypeBase(types[i]) : i \in DOMAIN types}
    IN  IF Null \in bases THEN Null
        ELSE IF Cardinality(bases) = 1 THEN CHOOSE b \in bases : TRUE
        ELSE Null

\* a compaction that cuts the base one token short
compactIriShort(iri) ==
    IF contextBase = Null THEN iri
    ELSE IF StartsWith(normalizeSchemaOrg(iri), contextBase)
         THEN Slice(normalizeSchemaOrg(iri), Len(contextBase) - 1)
    ELSE iri

compactIri(iri) ==
    IF contextBase = Null THEN iri
    ELSE IF contextBase = schemaOrgHttps
         THEN IF StartsWith(normalizeSchemaOrg(iri), schemaOrgHttps)
              THEN Slice(normalizeSchemaOrg(iri), Len(schemaOrgHttps))
              ELSE iri
    ELSE IF StartsWith(iri, contextBase) THEN Slice(iri, Len(contextBase))
    ELSE iri

normalizeType(typeUrl) ==
    IF contextBase # Null THEN compactIri(normalizeSchemaOrg(typeUrl))
    ELSE normalizeSchemaOrg(typeUrl)

normalizePropertyName(token, itemEl) ==
    IF isAbsoluteUrl(token)
    THEN IF contextBase # Null THEN compactIri(normalizeSchemaOrg(token)) ELSE token
    ELSE IF contextBase # Null THEN token
    ELSE IF getItemVocabBase(itemEl) # Null THEN getItemVocabBase(itemEl) \o token
    ELSE token

getPropertyNames(el) == tokenize(doc.prop[el])

-----------------------------------------------------------------------------
(* Values and nodes *)

\* A value is a primitive string or a reference { "@id": ... }.  A reference
\* keeps String(nested["@id"]) in s and whether nested["@id"] was an array.
Prim(s) == [k |-> "prim", s |-> s, arr |-> FALSE]
NullValue == [k |-> "null", s |-> EmptyStr, arr |-> FALSE]

\* What a key of a node holds: one value (arr = FALSE) or an array of values
Scalar(v) == [arr |-> FALSE, vals |-> <<v>>]
Array(vs) == [arr |-> TRUE, vals |-> vs]
\* deduped.length === 1 ? deduped[0] : deduped
Collapse(vs) == IF Len(vs) = 1 THEN Scalar(vs[1]) ELSE Array(vs)

ElemStr(v) == IF v.k = "prim" THEN v.s ELSE <<"[object Object]">>
RECURSIVE JoinStr(_)
JoinStr(vs) ==
    IF vs = <<>> THEN EmptyStr
    ELSE IF Len(vs) = 1 THEN ElemStr(vs[1])
    ELSE ElemStr(vs[1]) \o <<",">> \o JoinStr(Tail(vs))
\* String(x) of what a key holds
StringOf(st) == IF st.arr THEN JoinStr(st.vals) ELSE ElemStr(st.vals[1])
\* x is truthy: an array, an object or a non-empty string
TruthyStored(st) == st.arr \/ st.vals[1].k = "ref" \/ Truthy(st.vals[1].s)

RefTo(st) == [k |-> "ref", s |-> StringOf(st), arr |-> st.arr]

valueKey(value) ==
    IF value.k = "ref"
    THEN IF Truthy(value.s) THEN <<"@id:">> \o value.s ELSE <<"obj:">> \o value.s
    ELSE <<"prim:">> \o value.s

RECURSIVE DedupeFrom(_, _)
DedupeFrom(values, seen) ==
    IF values = <<>> THEN <<>>
    ELSE IF valueKey(Head(values)) \in seen THEN DedupeFrom(Tail(values), seen)
    ELSE <<Head(values)>>
         \o DedupeFrom(Tail(values), seen \cup {valueKey(Head(values))})

dedupeValues(values) == DedupeFrom(values, {})

createSafeNode == <<>>
Has(node, key) == key \in DOMAIN node
Put(node, key, st) ==
    [k \in DOMAIN node \cup {key} |-> IF k = key THEN st ELSE node[k]]

\* a merge that appends without de-duplicating
addPropertyNoDedupe(node, key, value) ==
    IF value = NullValue THEN node
    ELSE IF key \in unsafePropertyKeys THEN node
    ELSE IF ~Has(node, key) THEN Put(node, key, Scalar(value))
    ELSE Put(node, key, Collapse(node[key].vals \o <<value>>))

\* a merge that accepts every key
addPropertyAnyKey(node, key, value) ==
    IF value = NullValue THEN node
    ELSE IF ~Has(node, key) THEN Put(node, key, Scalar(value))
    ELSE Put(node, key, Collapse(dedupeValues(node[key].vals \o <<value>>)))

addProperty(node, key, value) ==
    IF value = NullValue THEN node
    ELSE IF key \in unsafePropertyKeys THEN node
    ELSE IF ~Has(node, key) THEN Put(node, key, Scalar(value))
    ELSE Put(node, key, Collapse(dedupeValues(node[key].vals \o <<value>>)))

RECURSIVE AddForNames(_, _, _, _)
\* for (const name of names) addProperty(node, normalizePropertyName(name, el), value)
AddForNames(node, names, el, value) ==
    IF names = <<>> THEN node
    ELSE AddForNames(addProperty(node, normalizePropertyName(Head(names), el), value),
                     Tail(names), el, value)

\* lines 431-438 of buildItem: merge the element's types into node["@type"]
MergeTypes(node, el) ==
    LET types == getItemTypes(el)
        tvals == [i \in DOMAIN types |-> Prim(normalizeType(types[i]))]
        merged == IF Has(node, TypeKey) /\ TruthyStored(node[TypeKey])
                  THEN dedupeValues(node[TypeKey].vals \o tvals)
                  ELSE tvals
    IN  IF Len(types) = 0 THEN node ELSE Put(node, TypeKey, Collapse(merged))

-----------------------------------------------------------------------------
(* Scope, references and the contributing elements of an item *)

RECURSIVE NearestScope(_)
\* the nearest ancestor-or-self of e that carries itemscope, 0 when none
NearestScope(e) ==
    IF e = 0 THEN 0
    ELSE IF hasItemscope(e) THEN e
    ELSE NearestScope(parentElement(e))

\* a scope check that accepts every candidate
isInScopeAlways(el, itemEl) == TRUE

isInScope(el, itemEl) ==
    LET current == NearestScope(parentElement(el))
    IN  IF current # 0 THEN current = itemEl ELSE TRUE

RECURSIVE LookupAll(_)
\* for (const id of refs) the element document.getElementById(id), when found
LookupAll(refs) ==
    IF refs = <<>> THEN <<>>
    ELSE (IF getElementById(Head(refs)) # 0 THEN <<getElementById(Head(refs))>> ELSE <<>>)
         \o LookupAll(Tail(refs))

\* [err, els]: err is the failure thrown, NoError when none
getItemRefElements(itemEl) ==
    LET refs == tokenize(doc.itemref[itemEl])
        max == effectiveLimits.maxItemRefIds
    IN  IF Exceeds(Len(refs), max)
        THEN IF LimitThrows
             THEN [err |-> limitError("maxItemRefIds", max, Len(refs)), els |-> <<>>]
             ELSE [err |-> NoError, els |-> LookupAll(SubSeq(refs, 1, max))]
        ELSE [err |-> NoError, els |-> LookupAll(refs)]

RECURSIVE WithItemprop(_)
WithItemprop(els) ==
    IF els = <<>> THEN <<>>
    ELSE (IF hasItemprop(Head(els)) THEN <<Head(els)>> ELSE <<>>)
         \o WithItemprop(Tail(els))

\* a scan that walks under a referenced root without taking the root itself
EncountersSubtreeOnly(root, itemEl) ==
    LET w == WithItemprop(Descendants(root))
    IN  [i \in DOMAIN w |-> [el |-> w[i], isRoot |-> FALSE]]

\* The elements one root makes the scan meet, in the order it meets them:
\* the root itself when it is a referenced element that declares itemprop
\* (lines 305-328), then what the TreeWalker accepts under it (lines 330-369)
Encounters(root, itemEl) ==
    (IF root # itemEl /\ hasItemprop(root)
     THEN <<[el |-> root, isRoot |-> TRUE]>> ELSE <<>>)
    \o LET w == WithItemprop(Descendants(root))
       IN  [i \in DOMAIN w |-> [el |-> w[i], isRoot |-> FALSE]]

RECURSIVE AllEncounters(_, _)
AllEncounters(roots, itemEl) ==
    IF roots = <<>> THEN <<>>
    ELSE Encounters(Head(roots), itemEl) \o AllEncounters(Tail(roots), itemEl)

AddCandidate(cands, el) == IF el \in Range(cands) THEN cands ELSE Append(cands, el)

RECURSIVE Scan(_, _, _)
\* the two loops of collectPropertyElements over what is left to meet; st is
\* [seen, total, cands, err]: itempropSeenForItem, totalItempropSeen, the
\* candidates in insertion order and the failure thrown
Scan(todo, itemEl, st) ==
    IF todo = <<>> THEN st
    ELSE LET e == Head(todo)
             maxPer == effectiveLimits.maxPropertyElementsPerItem
             maxTotal == effectiveLimits.maxTotalPropertyElements
         IN  IF Exceeds(st.seen + 1, maxPer)
             THEN IF LimitThrows
                  THEN [st EXCEPT !.err =
                          limitError("maxPropertyElementsPerItem", maxPer, st.seen + 1)]
                  ELSE st
             ELSE IF Exceeds(st.total + 1, maxTotal)
             THEN IF LimitThrows
                  THEN [st EXCEPT !.err =
                          limitError("maxTotalPropertyElements", maxTotal, st.total + 1)]
                  ELSE st
             ELSE Scan(Tail(todo), itemEl,
                       [st EXCEPT !.seen = @ + 1, !.total = @ + 1,
                                  !.cands = IF e.el # itemEl /\ isInScope(e.el, itemEl)
                                            THEN AddCandidate(@, e.el) ELSE @])

\* the candidates left in insertion order
Unsorted(cands) == cands

\* ordered.sort by compareDocumentPosition
SortByDocumentPosition(cands) == SortSeq(cands, LAMBDA a, b : a < b)

\* [err, total, ordered, seen]
collectPropertyElements(itemEl) ==
    LET refs == getItemRefElements(itemEl)
        st0 == [seen |-> 0, total |-> totalItempropSeen, cands |-> <<>>, err |-> refs.err]
        st == IF refs.err # NoError THEN st0
              ELSE Scan(AllEncounters(<<itemEl>> \o refs.els, itemEl), itemEl, st0)
    IN  [err |-> st.err, total |-> st.total, seen |-> st.seen,
         ordered |-> SortByDocumentPosition(st.cands)]

-----------------------------------------------------------------------------
(* Value extraction *)

RECURSIVE ConcatText(_)
ConcatText(els) ==
    IF els = <<>> THEN EmptyStr ELSE doc.text[Head(els)] \o ConcatText(Tail(els))

\* el.textContent: the element's text and its descendants', in document order
textContent(el) == doc.text[el] \o ConcatText(Descendants(el))

textValue(el) ==
    IF ~Truthy(textContent(el)) THEN Null
    ELSE IF Len(Trim(textContent(el))) > 0 THEN Trim(textContent(el)) ELSE Null

UrlTags == {"audio", "embed", "iframe", "img", "source", "track", "video",
            "a", "area", "link", "object"}
AttrTags == {"meta", "data", "meter", "input"}

\* getAttribute of the attribute the element's tag reads (content, src, href,
\* data, value or datetime): a string, or null when absent
getAttribute(el) == doc.attr[el]

\* getPropertyValue for an element without itemscope: a string or null
PlainValue(propEl) ==
    LET tag == doc.tag[propEl]
    IN  IF tag \in AttrTags THEN getAttribute(propEl)
        ELSE IF tag \in UrlTags THEN sanitizeUrl(resolveUrl(getAttribute(propEl)))
        ELSE IF tag = "time"
             THEN IF getAttribute(propEl) # Null /\ Truthy(getAttribute(propEl))
                  THEN getAttribute(propEl) ELSE textValue(propEl)
        ELSE textValue(propEl)

ToValue(s) == IF s = Null THEN NullValue ELSE Prim(s)

-----------------------------------------------------------------------------
(* Item identity and the node map *)

\* an identifier resolution that does not consult elementToId
getItemIdUncached(el) ==
    IF Truthy(doc.itemid[el])
    THEN [id |-> resolveUrl(doc.itemid[el]), fresh |-> FALSE]
    ELSE [id |-> <<"_:b">> \o NumStr(blankCounter + 1), fresh |-> TRUE]

\* an identifier resolution that numbers with the counter before its increment
getItemIdPostIncrement(el) ==
    IF el \in DOMAIN elementToId THEN [id |-> elementToId[el], fresh |-> FALSE]
    ELSE IF Truthy(doc.itemid[el])
         THEN [id |-> resolveUrl(doc.itemid[el]), fresh |-> FALSE]
    ELSE [id |-> <<"_:b">> \o (IF blankCounter = 0 THEN <<"0">> ELSE NumStr(blankCounter)),
          fresh |-> TRUE]

\* [id, fresh]: fresh when a blank identifier is allocated by this call
getItemId(el) ==
    IF el \in DOMAIN elementToId THEN [id |-> elementToId[el], fresh |-> FALSE]
    ELSE IF Truthy(doc.itemid[el])
         THEN [id |-> resolveUrl(doc.itemid[el]), fresh |-> FALSE]
    ELSE [id |-> <<"_:b">> \o NumStr(blankCounter + 1), fresh |-> TRUE]

\* nodeById.get(id): the position of the entry registered under id, 0 when none
NodeIndex(id) ==
    LET hits == {i \in DOMAIN nodeById : nodeById[i].id = id}
    IN  IF hits = {} THEN 0 ELSE CHOOSE i \in hits : \A j \in hits : i <= j

\* a lookup that never finds the node registered under id
LookupOrCreateFresh(id) ==
    [nodes |-> Append(nodeById,
                 [id |-> id, node |-> Put(createSafeNode, IdKey, Scalar(Prim(id)))]),
     at |-> Len(nodeById) + 1]

\* lines 423-428: the node registered under id, created when there is none;
\* [nodes, at] is the map afterwards and the node's position in it
LookupOrCreate(id) ==
    IF NodeIndex(id) # 0 THEN [nodes |-> nodeById, at |-> NodeIndex(id)]
    ELSE [nodes |-> Append(nodeById,
                      [id |-> id, node |-> Put(createSafeNode, IdKey, Scalar(Prim(id)))]),
          at |-> Len(nodeById) + 1]

Top == stack[Len(stack)]
Running == pc = "build"

\* buildItem(el) up to the loop over propElements (lines 422-440): a new
\* invocation is pushed on the stack, or the failure of a breached ceiling
\* is thrown
EnterBuildItem(el) ==
    LET gid == getItemId(el)
        lk == LookupOrCreate(gid.id)
        cpe == collectPropertyElements(el)
    IN  /\ elementToId' = (el :> gid.id) @@ elementToId
        /\ blankCounter' = IF gid.fresh THEN blankCounter + 1 ELSE blankCounter
        /\ idCalls' = Append(idCalls, [el |-> el, id |-> gid.id])
        /\ nodeById' = [lk.nodes EXCEPT ![lk.at].node = MergeTypes(@, el)]
        /\ elementToNode' = (el :> lk.at) @@ elementToNode
        /\ totalItempropSeen' = cpe.total
        /\ invocations' = invocations + 1
        /\ IF cpe.err # NoError
           THEN /\ pc' = "failed"
                /\ error' = cpe.err
                /\ UNCHANGED <<stack, maxDepthSeen>>
           ELSE /\ stack' = Append(stack, [el |-> el, node |-> lk.at, i |-> 1,
                                           props |-> cpe.ordered, seen |-> cpe.seen,
                                           inv |-> invocations + 1])
                /\ maxDepthSeen' = Max2(maxDepthSeen, Len(stack) + 1)
                /\ UNCHANGED <<pc, error>>

-----------------------------------------------------------------------------
(* parseMicrodata, step by step *)

RECURSIVE WithItemscope(_)
WithItemscope(els) ==
    IF els = <<>> THEN <<>>
    ELSE (IF hasItemscope(Head(els)) THEN <<Head(els)>> ELSE <<>>)
         \o WithItemscope(Tail(els))

\* every element with itemscope, the root first, in document order
ScopeElements == WithItemscope(<<Root>> \o Descendants(Root))

\* a discovery that lets one element past the ceiling
collectItemsOffByOne ==
    LET all == ScopeElements
        max == effectiveLimits.maxItems
    IN  IF Exceeds(Len(all), max + 1)
        THEN IF LimitThrows
             THEN [err |-> limitError("maxItems", max, max + 2), els |-> <<>>]
             ELSE [err |-> NoError, els |-> SubSeq(all, 1, max + 1)]
        ELSE [err |-> NoError, els |-> all]

\* [err, els]
collectItems ==
    LET all == ScopeElements
        max == effectiveLimits.maxItems
    IN  IF Exceeds(Len(all), max)
        THEN IF LimitThrows
             THEN [err |-> limitError("maxItems", max, max + 1), els |-> <<>>]
             ELSE [err |-> NoError, els |-> SubSeq(all, 1, max)]
        ELSE [err |-> NoError, els |-> all]

EmptyResult == [kind |-> "empty", graph |-> <<>>, context |-> Null]
NoResult == [kind |-> "none", graph |-> <<>>, context |-> Null]

\* lines 60-102 and 222: the length check, collectItems, computeCommonVocabBase
Start ==
    /\ UNCHANGED trackerVars
    /\ pc = "start"
    /\ IF Exceeds(doc.len, effectiveLimits.maxHtmlLength)
       THEN /\ IF LimitThrows
               THEN /\ pc' = "failed"
                    /\ error' = limitError("maxHtmlLength",
                                           effectiveLimits.maxHtmlLength, doc.len)
                    /\ UNCHANGED result
               ELSE /\ pc' = "done"
                    /\ result' = EmptyResult
                    /\ UNCHANGED error
            /\ UNCHANGED <<items, contextBase>>
       ELSE LET ci == collectItems
            IN  IF ci.err # NoError
                THEN /\ pc' = "failed"
                     /\ error' = ci.err
                     /\ UNCHANGED <<items, contextBase, result>>
                ELSE /\ pc' = "build"
                     /\ items' = ci.els
                     /\ contextBase' = IF opt.compact THEN computeCommonVocabBase(ci.els)
                                       ELSE Null
                     /\ UNCHANGED <<error, result>>
    /\ UNCHANGED <<doc, opt, nextItem, elementToId, elementToNode, nodeById,
                   blankCounter, totalItempropSeen, stack, idCalls, addLog,
                   invocations, maxDepthSeen>>

\* line 497-498: the loop calls buildItem for the next collected item
BuildNext ==
    /\ UNCHANGED trackerVars
    /\ Running
    /\ stack = <<>>
    /\ nextItem <= Len(items)
    /\ EnterBuildItem(items[nextItem])
    /\ nextItem' = nextItem + 1
    /\ UNCHANGED <<doc, opt, items, contextBase, result, addLog>>

LogAdds(f, propEl, value) ==
    IF value = NullValue \/ getPropertyNames(propEl) = <<>> THEN addLog
    ELSE Append(addLog, [inv |-> f.inv, owner |-> f.el, src |-> propEl,
                         node |-> f.node, value |-> value])

\* lines 441-450 for a contributing element without itemscope
PlainProperty ==
    /\ UNCHANGED trackerVars
    /\ Running
    /\ stack # <<>>
    /\ Top.i <= Len(Top.props)
    /\ LET propEl == Top.props[Top.i]
           names == getPropertyNames(propEl)
           value == ToValue(PlainValue(propEl))
       IN  /\ ~(hasItemscope(propEl) /\ names # <<>>)
           /\ nodeById' = IF names = <<>> THEN nodeById
                          ELSE [nodeById EXCEPT ![Top.node].node =
                                  AddForNames(@, names, Top.el, value)]
           /\ addLog' = LogAdds(Top, propEl, value)
    /\ stack' = [stack EXCEPT ![Len(stack)].i = @ + 1]
    /\ UNCHANGED <<doc, opt, pc, items, nextItem, contextBase, elementToId,
                   elementToNode, blankCounter, totalItempropSeen, result, error,
                   idCalls, invocations, maxDepthSeen>>

\* lines 463-464: the contributing element carries itemscope, so
\* getPropertyValue calls buildItem for it
NestedItem ==
    /\ UNCHANGED trackerVars
    /\ Running
    /\ stack # <<>>
    /\ Top.i <= Len(Top.props)
    /\ hasItemscope(Top.props[Top.i])
    /\ getPropertyNames(Top.props[Top.i]) # <<>>
    /\ IF Len(stack) >= MaxStack
       THEN /\ pc' = "overflow"
            /\ UNCHANGED <<elementToId, elementToNode, nodeById, blankCounter,
                           totalItempropSeen, stack, error, idCalls, invocations,
                           maxDepthSeen>>
       ELSE EnterBuildItem(Top.props[Top.i])
    /\ UNCHANGED <<doc, opt, items, nextItem, contextBase, result, addLog>>

\* line 452 and, for a nested invocation, lines 465 and 445-449 of the caller
Return ==
    /\ UNCHANGED trackerVars
    /\ Running
    /\ stack # <<>>
    /\ Top.i > Len(Top.props)
    /\ IF Len(stack) = 1
       THEN /\ stack' = <<>>
            /\ UNCHANGED <<nodeById, addLog>>
       ELSE LET caller == stack[Len(stack) - 1]
                propEl == caller.props[caller.i]
                nested == nodeById[Top.node].node
                value == IF Has(nested, IdKey) /\ TruthyStored(nested[IdKey])
                         THEN RefTo(nested[IdKey]) ELSE NullValue
            IN  /\ nodeById' = [nodeById EXCEPT ![caller.node].node =
                                  AddForNames(@, getPropertyNames(propEl), caller.el, value)]
                /\ addLog' = LogAdds(caller, propEl, value)
                /\ stack' = [SubSeq(stack, 1, Len(stack) - 1)
                               EXCEPT ![Len(stack) - 1].i = @ + 1]
    /\ UNCHANGED <<doc, opt, pc, items, nextItem, contextBase, elementToId,
                   elementToNode, blankCounter, totalItempropSeen, result, error,
                   idCalls, invocations, maxDepthSeen>>

\* a result shaping that returns a single Item bare whatever alwaysGraph is
ShapeResultBare ==
    LET graph == [i \in DOMAIN nodeById |-> nodeById[i].node]
        contextValue == IF contextBase = Null THEN Null
                        ELSE IF contextBase = schemaOrgHttps THEN schemaOrgContext
                        ELSE contextBase
    IN  IF Len(graph) = 0 THEN EmptyResult
        ELSE IF Len(graph) = 1
             THEN [kind |-> "item", graph |-> graph, context |-> contextValue]
        ELSE [kind |-> "graph", graph |-> graph, context |-> contextValue]

\* lines 501-513
ShapeResult ==
    LET graph == [i \in DOMAIN nodeById |-> nodeById[i].node]
        contextValue == IF contextBase = Null THEN Null
                        ELSE IF contextBase = schemaOrgHttps THEN schemaOrgContext
                        ELSE contextBase
    IN  IF Len(graph) = 0 THEN EmptyResult
        ELSE IF Len(graph) = 1 /\ ~opt.alwaysGraph
             THEN [kind |-> "item", graph |-> graph, context |-> contextValue]
        ELSE [kind |-> "graph", graph |-> graph, context |-> contextValue]

Finish ==
    /\ UNCHANGED trackerVars
    /\ Running
    /\ stack = <<>>
    /\ nextItem > Len(items)
    /\ pc' = "done"
    /\ result' = ShapeResult
    /\ UNCHANGED <<doc, opt, items, nextItem, contextBase, elementToId, elementToNode,
                   nodeById, blankCounter, totalItempropSeen, stack, error, idCalls,
                   addLog, invocations, maxDepthSeen>>

Next == Start \/ BuildNext \/ PlainProperty \/ NestedItem \/ Return \/ Finish

-----------------------------------------------------------------------------
(* ProcessTracker and the routes that use it *)

\* overlapping GET /render requests the model follows
NumCalls == 3
Calls == 1..NumCalls

\* the process file does not exist yet
Absent == "absent"
\* the file after fs.writeFile opened it with flag "w" and before it wrote
Truncated == ""

\* value.toString() of writeValue (line 33)
writeValue(value) == IF value = 1 THEN "1" ELSE "0"
start == writeValue(1)
\* a finish() that writes what start() writes
finishAsStart == writeValue(1)

finish == writeValue(0)

\* getProgress (lines 74-83): 0 unless the file reads 1
getProgress == IF file = "1" THEN 1 ELSE 0

NotCalled == [kind |-> "none", val |-> "none"]
\* what fn may settle with: pageRenderer.render(url) returns html or rejects
FnOutcomes == {[kind |-> "value", val |-> "html"], [kind |-> "error", val |-> "RenderError"]}
\* the rejection of mkdir or of writeFile
WriteError == [kind |-> "error", val |-> "WriteError"]

\* a track() that resolves to nothing whatever fn settled with
trackSettlesVoid(fnOutcome) == [kind |-> "value", val |-> "undefined"]

\* lines 56-60 when finish() resolved: return await fn(), or the rethrow of
\* what fn threw
trackSettles(fnOutcome) == fnOutcome

IdleCall == [pc |-> "idle", fn |-> NotCalled, out |-> NotCalled,
             started |-> FALSE, reset |-> FALSE]

NoTracking ==
    /\ file = "0"
    /\ call = [c \in Calls |-> IdleCall]
    /\ progress = 0
    /\ lastWrite = [call |-> 0, value |-> "0"]

\* renderRoute.js line 14 and processTracker.js lines 54-55, 39-40, 31-33:
\* the handler calls track, which calls start(), which begins writeValue(1)
Track(c) ==
    /\ call[c].pc = "idle"
    /\ call' = [call EXCEPT ![c].pc = "startOpen"]
    /\ UNCHANGED <<parseVars, file, progress, lastWrite>>

\* line 33: fs.writeFile opens the file for writing, which empties it
OpenFile(c) ==
    /\ call[c].pc \in {"startOpen", "finishOpen"}
    /\ file' = Truncated
    /\ call' = [call EXCEPT ![c].pc = IF @ = "startOpen" THEN "startWrite"
                                       ELSE "finishWrite"]
    /\ UNCHANGED <<parseVars, progress, lastWrite>>

\* line 33: fs.writeFile writes the value and its promise resolves
WriteFile(c) ==
    /\ call[c].pc \in {"startWrite", "finishWrite"}
    /\ LET value == IF call[c].pc = "startWrite" THEN start ELSE finish
       IN  /\ file' = value
           /\ lastWrite' = [call |-> c, value |-> value]
    /\ call' = [call EXCEPT ![c].pc = IF @ = "startWrite" THEN "started" ELSE "finished",
                            ![c].started = TRUE,
                            ![c].reset = (call[c].pc = "finishWrite")]
    /\ UNCHANGED <<parseVars, progress>>

\* lines 19-24 and 33: mkdir or writeFile rejects; start() rejecting makes
\* track reject before fn is called (line 55), finish() rejecting replaces
\* what fn settled with (line 59)
WriteFails(c) ==
    /\ call[c].pc \in {"startOpen", "startWrite", "finishOpen", "finishWrite"}
    /\ call' = [call EXCEPT ![c].pc = "settled", ![c].out = WriteError]
    /\ UNCHANGED <<parseVars, file, progress, lastWrite>>

\* line 57: start() resolved and fn is called
CallFn(c) ==
    /\ call[c].pc = "started"
    /\ call' = [call EXCEPT ![c].pc = "running"]
    /\ UNCHANGED <<parseVars, file, progress, lastWrite>>

\* lines 57-59: fn settles and the finally block calls finish(), which
\* begins writeValue(0)
FnSettles(c) ==
    /\ call[c].pc = "running"
    /\ \E o \in FnOutcomes :
         call' = [call EXCEPT ![c].pc = "finishOpen", ![c].fn = o]
    /\ UNCHANGED <<parseVars, file, progress, lastWrite>>

\* lines 57-60 and renderRoute.js lines 15-17: finish() resolved and track
\* settles with what fn settled with
TrackSettles(c) ==
    /\ call[c].pc = "finished"
    /\ call' = [call EXCEPT ![c].pc = "settled", ![c].out = trackSettles(call[c].fn)]
    /\ UNCHANGED <<parseVars, file, progress, lastWrite>>

\* renderRoute.js lines 22-27: GET /progress
Progress ==
    /\ progress' = getProgress
    /\ UNCHANGED <<parseVars, file, call, lastWrite>>

TrackerNext ==
    \/ \E c \in Calls : Track(c)
    \/ \E c \in Calls : OpenFile(c)
    \/ \E c \in Calls : WriteFile(c)
    \/ \E c \in Calls : WriteFails(c)
    \/ \E c \in Calls : CallFn(c)
    \/ \E c \in Calls : FnSettles(c)
    \/ \E c \in Calls : TrackSettles(c)
    \/ Progress

-----------------------------------------------------------------------------
(* Documents and options the parse is run on *)

\* parent functions of the trees of n elements numbered in document order:
\* the parent of i is i - 1 or an ancestor of i - 1
RECURSIVE AncestorsIn(_, _)
AncestorsIn(p, e) == IF p[e] = 0 THEN {} ELSE {p[e]} \cup AncestorsIn(p, p[e])
Shapes(n) ==
    {p \in [1..n -> 0..(n - 1)] :
        /\ p[1] = 0
        /\ \A i \in 2..n : p[i] = i - 1 \/ p[i] \in AncestorsIn(p, i - 1)}

ElemId(i) == <<"e">> \o NumStr(i)
TextOf(i) == <<"t">> \o NumStr(i)

\* Kinds of element.  own = TRUE gives the element a text of its own, which
\* differs from element to element.
Div == [scope |-> FALSE, hasProp |-> FALSE, prop |-> <<>>, itemid |-> EmptyStr,
        itemtype |-> <<>>, itemref |-> <<>>, tag |-> "div", attr |-> Null,
        own |-> FALSE, text |-> EmptyStr]
\* <div itemprop="a">t</div>
PropA == [Div EXCEPT !.hasProp = TRUE, !.prop = <<<<"a">>>>, !.own = TRUE]
\* <div itemscope>
Item == [Div EXCEPT !.scope = TRUE]
\* <div itemscope itemprop="c">
ItemProp == [Item EXCEPT !.hasProp = TRUE, !.prop = <<<<"c">>>>]
\* <div itemscope itemid="x">
ItemX == [Item EXCEPT !.itemid = <<"x">>]
\* <div itemscope itemprop="c" itemid="x">
ItemPropX == [ItemProp EXCEPT !.itemid = <<"x">>]
\* <div itemscope itemref="e2">
ItemRef == [Item EXCEPT !.itemref = <<ElemId(2)>>]

ExA == <<"http:", "/", "/", "ex.org", "/", "v", "#", "A">>
ExB == <<"http:", "/", "/", "ex.org", "/", "v", "#", "B">>
ExName == <<"http:", "/", "/", "ex.org", "/", "v", "#", "name">>
LegacyA == schemaOrgHttp \o <<"A">>
SchemaB == schemaOrgHttps \o <<"B">>
LegacyName == schemaOrgHttp \o <<"name">>
\* <div itemscope itemtype="http://schema.org/A">
ItemLegacyA == [Item EXCEPT !.itemtype = <<LegacyA>>]
\* <div itemscope itemprop="c" itemtype="https://schema.org/B">
ItemPropSchemaB == [ItemProp EXCEPT !.itemtype = <<SchemaB>>]
\* <div itemscope itemtype="http://ex.org/v#A">
ItemExA == [Item EXCEPT !.itemtype = <<ExA>>]
\* <div itemprop="http://schema.org/name">t</div>
PropLegacyName == [PropA EXCEPT !.prop = <<LegacyName>>]
\* <div itemprop="http://ex.org/v#name">t</div>
PropExName == [PropA EXCEPT !.prop = <<ExName>>]
\* <div itemscope itemid="x" itemtype="http://ex.org/v#A">
ItemXA == [ItemX EXCEPT !.itemtype = <<ExA>>]
\* <div itemscope itemprop="c" itemid="x" itemtype="http://ex.org/v#B">
ItemPropXB == [ItemPropX EXCEPT !.itemtype = <<ExB>>]

OtherB == <<"http:", "/", "/", "other.org", "/", "B">>
SchemaA == schemaOrgHttps \o <<"A">>
\* <div itemscope itemtype="http://ex.org/v#A http://other.org/B">
ItemExAOtherB == [Item EXCEPT !.itemtype = <<ExA, OtherB>>]
\* <div itemscope itemtype="http://schema.org/A https://schema.org/A">
ItemBothA == [Item EXCEPT !.itemtype = <<LegacyA, SchemaA>>]
\* <div itemscope itemtype="Thing">
ItemThing == [Item EXCEPT !.itemtype = <<<<"Thing">>>>]

\* <meta itemprop="a" content="">
MetaEmpty == [PropA EXCEPT !.tag = "meta", !.attr = EmptyStr, !.own = FALSE]
\* <meta itemprop="a" content="v">
MetaV == [MetaEmpty EXCEPT !.attr = <<"v">>]
\* <input itemprop="a">
InputAbsent == [MetaEmpty EXCEPT !.tag = "input", !.attr = Null]
\* <a itemprop="a" href="">t</a>
LinkEmpty == [PropA EXCEPT !.tag = "a", !.attr = EmptyStr]
\* <time itemprop="a" datetime=""> </time>
TimeEmpty == [PropA EXCEPT !.tag = "time", !.attr = EmptyStr, !.own = FALSE, !.text = <<" ">>]
\* <div itemprop="a"> </div>
PropSpace == [PropA EXCEPT !.own = FALSE, !.text = <<" ">>]

\* <a itemprop="a" href="//evil/x">
LinkProtoRel == [PropA EXCEPT !.tag = "a", !.attr = <<"/", "/", "evil", "/", "x">>]
\* <img itemprop="a" src="javascript:x">
ImgJs == [PropA EXCEPT !.tag = "img", !.attr = <<"javascript:", "x">>]
\* <a itemprop="a" href="https://ok/x">
LinkHttps == [PropA EXCEPT !.tag = "a", !.attr = <<"https:", "/", "/", "ok", "/", "x">>]
\* <object itemprop="a" data="rel">
ObjRel == [PropA EXCEPT !.tag = "object", !.attr = <<"rel">>]

\* <div itemprop="@id">t</div>
PropId == [PropA EXCEPT !.prop = <<IdKey>>]

\* <div itemprop="__proto__">t</div>
PropProto == [PropA EXCEPT !.prop = <<<<"__proto__">>>>]
\* <div itemprop="http://schema.org/constructor">t</div>
PropConstructorAbs == [PropA EXCEPT !.prop = <<schemaOrgHttp \o <<"constructor">>>>]
\* <div itemprop="a prototype">t</div>
PropAPrototype == [PropA EXCEPT !.prop = <<<<"a">>, <<"prototype">>>>]
\* <div itemscope itemprop="constructor">
ItemPropConstructor == [ItemProp EXCEPT !.prop = <<<<"constructor">>>>]

\* <div itemscope itemid="_:b1">
ItemB1 == [Item EXCEPT !.itemid = <<"_:b">> \o NumStr(1)]

\* <div itemscope itemprop="c" itemtype="http://schema.org/A https://schema.org/A">
ItemPropBothA == [ItemProp EXCEPT !.itemtype = <<LegacyA, SchemaA>>]

\* element i of kind k, its itemref followed by refs
Element(k, i, refs) ==
    [scope |-> k.scope, hasProp |-> k.hasProp, prop |-> k.prop, itemid |-> k.itemid,
     itemtype |-> k.itemtype, itemref |-> k.itemref \o refs, id |-> ElemId(i), tag |-> k.tag,
     attr |-> k.attr, text |-> IF k.own THEN TextOf(i) ELSE k.text]

\* the document of the given shape whose element i is els[i]
Document(shape, els) ==
    [n |-> Len(els), len |-> Len(els), parent |-> shape,
     scope |-> [i \in DOMAIN els |-> els[i].scope],
     hasProp |-> [i \in DOMAIN els |-> els[i].hasProp],
     prop |-> [i \in DOMAIN els |-> els[i].prop],
     itemid |-> [i \in DOMAIN els |-> els[i].itemid],
     itemtype |-> [i \in DOMAIN els |-> els[i].itemtype],
     itemref |-> [i \in DOMAIN els |-> els[i].itemref],
     id |-> [i \in DOMAIN els |-> els[i].id],
     tag |-> [i \in DOMAIN els |-> els[i].tag],
     attr |-> [i \in DOMAIN els |-> els[i].attr],
     text |-> [i \in DOMAIN els |-> els[i].text]]

\* at most one itemref in the document: an item lists the id of one element
RefEdges(ks) ==
    {<<0, 0>>} \cup ({i \in DOMAIN ks : ks[i].scope} \X DOMAIN ks)

StartOn(d, o) ==
    /\ doc = d
    /\ opt = o
    /\ pc = "start"
    /\ items = <<>>
    /\ nextItem = 1
    /\ contextBase = Null
    /\ elementToId = <<>>
    /\ elementToNode = <<>>
    /\ nodeById = <<>>
    /\ blankCounter = 0
    /\ totalItempropSeen = 0
    /\ stack = <<>>
    /\ result = NoResult
    /\ error = NoError
    /\ idCalls = <<>>
    /\ addLog = <<>>
    /\ invocations = 0
    /\ maxDepthSeen = 0
    /\ NoTracking

\* The parse of every document of NumElems elements whose root is of a kind
\* of rootKinds and whose other elements are of a kind of kinds, with at most
\* one itemref when withRefs, under every options object of options
ParseOf(rootKinds, kinds, withRefs, options) ==
    \E sh \in Shapes(NumElems) :
      \E ks \in [1..NumElems -> rootKinds \cup kinds] :
        /\ ks[1] \in rootKinds
        /\ \A i \in 2..NumElems : ks[i] \in kinds
        /\ \E rf \in IF withRefs THEN RefEdges(ks) ELSE {<<0, 0>>} :
             \E o \in options :
               StartOn(Document(sh, [i \in 1..NumElems |->
                         Element(ks[i], i,
                                 IF i = rf[1] THEN <<ElemId(rf[2])>> ELSE <<>>)]), o)

\* nested scopes and references
Init == ParseOf({Div, Item}, {PropA, Item, ItemProp}, TRUE, {defaultOptions})
Spec == Init /\ [][Next]_vars

\* elements that declare the same identifier, with and without types
InitMerge ==
    ParseOf({Div, ItemXA}, {PropA, ItemXA, ItemPropXB, ItemProp}, FALSE, {defaultOptions})
SpecMerge == InitMerge /\ [][Next]_vars

\* types and property names of two vocabularies, compacted or not
CompactOptions == {[defaultOptions EXCEPT !.compact = c] : c \in BOOLEAN}
InitVocab ==
    ParseOf({Div}, {PropA, PropLegacyName, PropExName, ItemLegacyA, ItemPropSchemaB,
                    ItemExA}, FALSE, CompactOptions)
SpecVocab == InitVocab /\ [][Next]_vars

\* ceilings that the documents reach, under both policies
LimitChoices ==
    {defaultLimits,
     [defaultLimits EXCEPT !.maxItems = 0],
     [defaultLimits EXCEPT !.maxItems = 1],
     [defaultLimits EXCEPT !.maxItems = 2],
     [defaultLimits EXCEPT !.maxHtmlLength = 3],
     [defaultLimits EXCEPT !.maxItemRefIds = 0],
     [defaultLimits EXCEPT !.maxPropertyElementsPerItem = 1],
     [defaultLimits EXCEPT !.maxTotalPropertyElements = 2]}
LimitOptions ==
    {[defaultOptions EXCEPT !.onLimit = p, !.limits = l] :
        p \in {"throw", "truncate"}, l \in LimitChoices}
    \cup {[defaultOptions EXCEPT !.onLimit = p, !.unlimited = TRUE] :
            p \in {"throw", "truncate"}}
    \cup {[defaultOptions EXCEPT !.onLimit = p, !.alwaysGraph = TRUE, !.limits = l] :
            p \in {"throw", "truncate"},
            l \in {defaultLimits, [defaultLimits EXCEPT !.maxItems = 1]}}
InitLimits == ParseOf({Div, Item}, {PropA, ItemRef, ItemProp}, FALSE, LimitOptions)
SpecLimits == InitLimits /\ [][Next]_vars

\* elements that declare the same identifier, and references
InitOrder == ParseOf({Div, ItemX}, {PropA, ItemX, ItemPropX}, TRUE, {defaultOptions})
SpecOrder == InitOrder /\ [][Next]_vars

\* items of one, two and no vocabulary, an item of two types, compacted or not
InitContext ==
    ParseOf({Div}, {PropLegacyName, ItemExA, ItemExAOtherB, ItemBothA, ItemPropSchemaB,
                    ItemThing}, FALSE, CompactOptions)
SpecContext == InitContext /\ [][Next]_vars

\* items with and without a declared identifier, nested and side by side
InitBlank ==
    ParseOf({Div, Item}, {PropA, Item, ItemProp, ItemPropX}, FALSE, {defaultOptions})
SpecBlank == InitBlank /\ [][Next]_vars

\* contributing elements whose attribute or text is absent, empty or blank
InitValues ==
    ParseOf({Item}, {MetaEmpty, MetaV, InputAbsent, LinkEmpty, TimeEmpty, PropSpace,
                     ItemProp}, FALSE, {defaultOptions})
SpecValues == InitValues /\ [][Next]_vars

\* media, link and object values under the URL policies, with and without a
\* base URL
SiteBase == <<"http:", "/", "/", "site", "/", "dir", "/">>
UrlOptions ==
    {defaultOptions,
     [defaultOptions EXCEPT !.baseUrl = SiteBase],
     [defaultOptions EXCEPT !.baseUrl = SiteBase, !.urlPolicy.allowProtocolRelative = TRUE],
     [defaultOptions EXCEPT !.urlPolicy.allowUnsafeSchemes = TRUE],
     [defaultOptions EXCEPT !.baseUrl = SiteBase, !.urlPolicy.allowedSchemes = {"https:"}],
     [defaultOptions EXCEPT !.urlPolicy.allowRelative = FALSE]}
InitUrl == ParseOf({Item}, {LinkProtoRel, ImgJs, LinkHttps, ObjRel, ItemProp}, FALSE, UrlOptions)
SpecUrl == InitUrl /\ [][Next]_vars

\* items that list, in itemref, properties and items elsewhere in the document
InitRef == ParseOf({Div, Item}, {PropA, ItemProp}, TRUE, {defaultOptions})
SpecRef == InitRef /\ [][Next]_vars

\* nested items and a property named "@id", with and without truncation
TruncateOptions ==
    {defaultOptions,
     [defaultOptions EXCEPT !.onLimit = "truncate", !.limits.maxItems = 1],
     [defaultOptions EXCEPT !.onLimit = "truncate",
                            !.limits.maxPropertyElementsPerItem = 1]}
InitIds == ParseOf({Div, Item}, {PropA, PropId, ItemProp}, FALSE, TruncateOptions)
SpecIds == InitIds /\ [][Next]_vars

\* overlapping /render requests on one tracker whose file was initialized
\* (renderSrv.js line 30) or is still missing; no parse is part of it
NoParse ==
    /\ doc = <<>> /\ opt = defaultOptions /\ pc = "start" /\ items = <<>> /\ nextItem = 1
    /\ contextBase = Null /\ elementToId = <<>> /\ elementToNode = <<>>
    /\ nodeById = <<>> /\ blankCounter = 0 /\ totalItempropSeen = 0
    /\ stack = <<>> /\ result = NoResult /\ error = NoError /\ idCalls = <<>>
    /\ addLog = <<>> /\ invocations = 0 /\ maxDepthSeen = 0
InitTracker ==
    /\ NoParse
    /\ file \in {"0", Absent}
    /\ call = [c \in Calls |-> IdleCall]
    /\ progress = 0
    /\ lastWrite = [call |-> 0, value |-> "0"]
SpecTracker == InitTracker /\ [][TrackerNext]_vars

\* nested scopes and references, cyclic ones included, under ceilings on the
\* contributing elements and both policies
CeilingChoices ==
    {[defaultLimits EXCEPT !.maxPropertyElementsPerItem = 1],
     [defaultLimits EXCEPT !.maxTotalPropertyElements = 2],
     [defaultLimits EXCEPT !.maxTotalPropertyElements = 3]}
CeilingOptions ==
    {[defaultOptions EXCEPT !.onLimit = p, !.limits = l] :
        p \in {"throw", "truncate"}, l \in CeilingChoices}
InitCeilings == ParseOf({Item}, {PropA, ItemProp}, TRUE, CeilingOptions)
SpecCeilings == InitCeilings /\ [][Next]_vars

\* property names that are, or compact to, the keys of inherited object
\* behaviour
InitUnsafe ==
    ParseOf({Div}, {PropProto, PropConstructorAbs, PropAPrototype, ItemPropConstructor,
                    ItemLegacyA}, FALSE, CompactOptions)
SpecUnsafe == InitUnsafe /\ [][Next]_vars

\* declared identifiers that read like synthesized ones, with and without
\* a base URL
InitClash ==
    ParseOf({Div, Item}, {PropA, Item, ItemB1, ItemProp}, FALSE,
            {defaultOptions, [defaultOptions EXCEPT !.baseUrl = SiteBase]})
SpecClash == InitClash /\ [][Next]_vars

\* items nested as properties, typed and untyped, which the top-level loop
\* builds a second time
InitRebuild ==
    ParseOf({Div, Item}, {PropA, ItemProp, ItemPropBothA, ItemPropSchemaB}, FALSE,
            CompactOptions)
SpecRebuild == InitRebuild /\ [][Next]_vars

-----------------------------------------------------------------------------
(* Properties *)

\* the item-scope elements whose buildItem has been called
Built == DOMAIN elementToNode
NodeOf(e) == nodeById[elementToNode[e]].node
\* the values a key of a node holds, as a sequence
ValuesAt(node, key) == IF Has(node, key) THEN node[key].vals ELSE <<>>
\* the value getPropertyValue reads from a property element without itemscope
ValueOfElement(p) == ToValue(PlainValue(p))
\* the elements E's itemref resolves to
RefElements(e) == Range(LookupAll(tokenize(doc.itemref[e])))
\* p's nearest item-scope ancestor is an element other than e
ScopedElsewhere(p, e) == NearestScope(parentElement(p)) \notin {0, e}

\* C1 (scope exclusion): building an item-scope element E never merges the
\* value of a property-declaring element P whose nearest item-scope ancestor
\* is another element than E, and, in documents where no two elements share
\* an Item, the property map of E's Item never holds the value of such a P,
\* also when P or an ancestor of P is listed in E's itemref.
C1_ScopeExclusion ==
    /\ \A i \in DOMAIN addLog : ~ScopedElsewhere(addLog[i].src, addLog[i].owner)
    /\ \A e \in Built : \A p \in Elems :
         (hasItemprop(p) /\ ~hasItemscope(p) /\ ScopedElsewhere(p, e)
            /\ ValueOfElement(p) # NullValue)
         => \A i \in DOMAIN getPropertyNames(p) :
              ValueOfElement(p) \notin
                Range(ValuesAt(NodeOf(e), normalizePropertyName(getPropertyNames(p)[i], e)))

\* an item whose itemref reaches, directly or through an ancestor, a property
\* of a nested item has been built and the parse has returned
C1_Witness ==
    /\ pc = "done"
    /\ \E e \in Built : \E p \in Elems :
         /\ hasItemprop(p) /\ ~hasItemscope(p)
         /\ ScopedElsewhere(p, e)
         /\ \E r \in RefElements(e) : r # e /\ (r = p \/ r \in Ancestors(p))
         /\ \E i \in DOMAIN addLog : addLog[i].owner = e

\* the declared identifier of e as getItemId resolves it, Null when e declares none
DeclaredId(e) == IF Truthy(doc.itemid[e]) THEN resolveUrl(doc.itemid[e]) ELSE Null
\* the keys under which buildItem(owner) merges the value of p
KeysOf(p, owner) ==
    {normalizePropertyName(getPropertyNames(p)[i], owner) : i \in DOMAIN getPropertyNames(p)}
\* the positions in nodeById registered under id
Registered(id) == {i \in DOMAIN nodeById : nodeById[i].id = id}

\* C2 (shared identifier): when the parse has returned, two item-scope elements
\* that declare the same resolved itemid are associated with one and the same
\* node, exactly one node is registered under that identifier and it occurs
\* once in the returned graph, and that node holds the types of both elements
\* and every value either build merged.
C2_SharedIdentifierOneItem ==
    pc = "done" =>
      \A e1 \in Built : \A e2 \in Built :
        (DeclaredId(e1) # Null /\ DeclaredId(e1) = DeclaredId(e2)) =>
          /\ elementToNode[e1] = elementToNode[e2]
          /\ Cardinality(Registered(DeclaredId(e1))) = 1
          /\ Cardinality({i \in DOMAIN result.graph :
                            result.graph[i] = NodeOf(e1)}) = 1
          /\ \A i \in DOMAIN getItemTypes(e2) :
               Prim(normalizeType(getItemTypes(e2)[i]))
                 \in Range(ValuesAt(NodeOf(e1), TypeKey))
          /\ \A i \in DOMAIN addLog :
               addLog[i].owner = e2 =>
                 \A k \in KeysOf(addLog[i].src, e2) :
                   addLog[i].value \in Range(ValuesAt(NodeOf(e1), k))

\* two elements with the same declared identifier and different types were
\* built, the later one merged a value, and the parse returned
C2_Witness ==
    /\ pc = "done"
    /\ \E e1 \in Built : \E e2 \in Built :
         /\ e1 < e2
         /\ DeclaredId(e1) # Null /\ DeclaredId(e1) = DeclaredId(e2)
         /\ getItemTypes(e1) # getItemTypes(e2)
         /\ Len(ValuesAt(NodeOf(e1), TypeKey)) = 2
         /\ \E i \in DOMAIN addLog : addLog[i].owner = e2
         /\ \E i \in DOMAIN addLog : addLog[i].owner = e1

\* C3 (identifier stability): every getItemId call on one element returned
\* the same identifier, and two different elements without a declared
\* identifier never received the same synthesized identifier.
C3_IdentifierStability ==
    \A i \in DOMAIN idCalls : \A j \in DOMAIN idCalls :
      /\ idCalls[i].el = idCalls[j].el => idCalls[i].id = idCalls[j].id
      /\ (idCalls[i].el # idCalls[j].el
            /\ DeclaredId(idCalls[i].el) = Null /\ DeclaredId(idCalls[j].el) = Null)
         => idCalls[i].id # idCalls[j].id

\* an element without a declared identifier was resolved by a recursive build
\* and again by the top-level loop, after another such element was resolved
C3_Witness ==
    \E i \in DOMAIN idCalls : \E j \in DOMAIN idCalls : \E k \in DOMAIN idCalls :
      /\ i < j /\ j < k
      /\ idCalls[i].el # idCalls[j].el
      /\ idCalls[j].el = idCalls[k].el
      /\ DeclaredId(idCalls[i].el) = Null /\ DeclaredId(idCalls[j].el) = Null

\* the elements some build read value v from for node n
SourcesOf(n, v) ==
    {addLog[i].src : i \in {j \in DOMAIN addLog : addLog[j].node = n /\ addLog[j].value = v}}

\* C4 as claimed (order determinism): in the returned graph the values of
\* every multi-valued property of an Item are in the document order of the
\* elements they were read from.
C4_ValuesInDocumentOrder ==
    pc = "done" =>
      \A n \in DOMAIN nodeById : \A k \in DOMAIN nodeById[n].node :
        LET vs == nodeById[n].node[k].vals
        IN  \A i \in DOMAIN vs : \A j \in DOMAIN vs :
              (i < j /\ SourcesOf(n, vs[i]) # {} /\ SourcesOf(n, vs[j]) # {}) =>
                \E a \in SourcesOf(n, vs[i]) : \E b \in SourcesOf(n, vs[j]) : a < b

\* C4 as amended: the values one buildItem invocation merges are merged in
\* the document order of the elements they are read from, whatever the order
\* in which the elements were inserted or listed in itemref; and an Item that
\* only one invocation has contributed to holds its multi-valued properties
\* in that order.
C4_OrderWithinBuild ==
    /\ \A i \in DOMAIN addLog : \A j \in DOMAIN addLog :
         (i < j /\ addLog[i].inv = addLog[j].inv) => addLog[i].src < addLog[j].src
    /\ \A n \in DOMAIN nodeById :
         Cardinality({addLog[i].inv : i \in {j \in DOMAIN addLog : addLog[j].node = n}}) = 1
         => \A k \in DOMAIN nodeById[n].node :
              LET vs == nodeById[n].node[k].vals
              IN  \A i \in DOMAIN vs : \A j \in DOMAIN vs :
                    (i < j /\ SourcesOf(n, vs[i]) # {} /\ SourcesOf(n, vs[j]) # {}) =>
                      \E a \in SourcesOf(n, vs[i]) : \E b \in SourcesOf(n, vs[j]) : a < b

\* an item whose itemref lists an element that precedes it in the document
\* holds that element's value before the value of a property of its subtree
C4_Witness ==
    /\ pc = "done"
    /\ \E i \in DOMAIN addLog : \E j \in DOMAIN addLog :
         /\ i < j /\ addLog[i].inv = addLog[j].inv
         /\ addLog[i].src < addLog[i].owner
         /\ addLog[i].owner \in Ancestors(addLog[j].src)
         /\ addLog[i].src \in RefElements(addLog[i].owner)
         /\ \E k \in DOMAIN nodeById[addLog[i].node].node :
              nodeById[addLog[i].node].node[k] =
                Array(<<addLog[i].value, addLog[j].value>>)

TestKeys == {<<"a">>, <<"c">>, <<"other">>, IdKey, TypeKey, <<"__proto__">>}
TestValues ==
    {Prim(TextOf(2)), Prim(TextOf(3)), Prim(EmptyStr), Prim(<<"_:b", "1">>),
     [k |-> "ref", s |-> <<"_:b", "1">>, arr |-> FALSE],
     [k |-> "ref", s |-> <<"_:b", "2">>, arr |-> FALSE]}

\* C5 (aggregation idempotence): for every node the parse reaches, every key
\* and every primitive or reference value v, addProperty applied twice leaves
\* the node as addProperty applied once does, and a key that held nothing
\* holds the scalar v afterwards, not a list.
C5_AggregationIdempotence ==
    \A n \in DOMAIN nodeById : \A k \in TestKeys : \A v \in TestValues :
      LET node == nodeById[n].node
          once == addProperty(node, k, v)
      IN  /\ addProperty(once, k, v) = once
          /\ (~Has(node, k) /\ k \notin unsafePropertyKeys) => once[k] = Scalar(v)

\* a build has merged the value of the same element into the same node twice
\* and the node holds it as a scalar
C5_Witness ==
    \E i \in DOMAIN addLog : \E j \in DOMAIN addLog :
      /\ i < j
      /\ addLog[i].src = addLog[j].src
      /\ addLog[i].node = addLog[j].node
      /\ addLog[i].value = addLog[j].value
      /\ \E k \in KeysOf(addLog[i].src, addLog[i].owner) :
           nodeById[addLog[i].node].node[k] = Scalar(addLog[i].value)

\* a compacted identifier re-expanded with the returned context value: the
\* short name of the well-known vocabulary stands for its root
Expand(context, term) ==
    (IF context = schemaOrgContext THEN schemaOrgHttps ELSE context) \o term
\* the identifier c that stands in the output for the declared one is shortened
Compacted(c, declared) == c # declared /\ c # normalizeSchemaOrg(declared)
\* the absolute property names of p
AbsoluteNames(p) ==
    {getPropertyNames(p)[i] : i \in {j \in DOMAIN getPropertyNames(p) :
                                       isAbsoluteUrl(getPropertyNames(p)[j])}}
DeclaredTypes(e) == Range(tokenize(doc.itemtype[e]))

\* C6 as claimed (compaction symmetry): with a shared context, every
\* compacted type or property identifier of the output, prefixed with the
\* returned context, is the absolute identifier the document declared.
C6_ExpandsToDeclared ==
    (pc = "done" /\ result.context # Null) =>
      /\ \A e \in Built : \A t \in DeclaredTypes(e) :
           Compacted(normalizeType(t), t) => Expand(result.context, normalizeType(t)) = t
      /\ \A i \in DOMAIN addLog : \A name \in AbsoluteNames(addLog[i].src) :
           LET c == normalizePropertyName(name, addLog[i].owner)
           IN  Compacted(c, name) => Expand(result.context, c) = name

\* C6 as amended: with a shared context, every compacted type or property
\* identifier of the output is held by the Item and, prefixed with the
\* returned context, is the canonical form of the identifier the document
\* declared: the declared identifier itself, unless that began with
\* http://schema.org/, which the parse rewrites to https://schema.org/.
C6_ExpandsToCanonical ==
    (pc = "done" /\ result.context # Null) =>
      /\ \A e \in Built : \A t \in DeclaredTypes(e) :
           /\ Prim(normalizeType(t)) \in Range(ValuesAt(NodeOf(e), TypeKey))
           /\ Compacted(normalizeType(t), t) =>
                Expand(result.context, normalizeType(t)) = normalizeSchemaOrg(t)
      /\ \A i \in DOMAIN addLog : \A name \in AbsoluteNames(addLog[i].src) :
           LET c == normalizePropertyName(name, addLog[i].owner)
           IN  /\ Has(nodeById[addLog[i].node].node, c)
               /\ Compacted(c, name) =>
                    Expand(result.context, c) = normalizeSchemaOrg(name)

\* a parse returned the context of the well-known vocabulary with an Item
\* whose legacy type and legacy property name were both compacted
C6_Witness ==
    /\ pc = "done"
    /\ result.context = schemaOrgContext
    /\ \E e \in Built :
         /\ LegacyA \in DeclaredTypes(e)
         /\ Prim(<<"A">>) \in Range(ValuesAt(NodeOf(e), TypeKey))
         /\ Has(NodeOf(e), <<"name">>)
         /\ \E i \in DOMAIN addLog :
              addLog[i].owner = e /\ LegacyName \in AbsoluteNames(addLog[i].src)

\* the html passed the length check, so the document was parsed
Parsed == ~Exceeds(doc.len, effectiveLimits.maxHtmlLength)
\* more item-scope elements than the item ceiling
TooManyItems == Exceeds(Len(ScopeElements), effectiveLimits.maxItems)

\* C7 (fail policy, item ceiling): when the parsed document holds more
\* item-scope elements than maxItems and the policy is not truncate, the call
\* throws the failure of kind "maxItems" whose max is the ceiling and whose
\* actual is the count reached when the ceiling was passed (max + 1), and
\* returns nothing.
C7_FailOnTooManyItems ==
    (LimitThrows /\ Parsed /\ TooManyItems /\ pc # "start") =>
      /\ pc = "failed"
      /\ error = [code |-> "MICRODATA_LIMIT_EXCEEDED", kind |-> "maxItems",
                  max |-> effectiveLimits.maxItems,
                  actual |-> effectiveLimits.maxItems + 1]
      /\ error.actual <= Len(ScopeElements)
      /\ result = NoResult
      /\ nodeById = <<>>

\* a document with at least two item-scope elements more than the ceiling
\* made the call throw
C7_Witness ==
    /\ pc = "failed"
    /\ error.kind = "maxItems"
    /\ effectiveLimits.maxItems = 1
    /\ Len(ScopeElements) = 3

\* C8 as claimed (truncate policy, item ceiling): when the document holds more
\* item-scope elements than maxItems = N, the returned graph holds exactly the
\* Items of the first N item-scope elements in discovery order, so never more
\* than N Items.
C8_TruncateKeepsFirstN ==
    (pc = "done" /\ ~LimitThrows /\ Parsed /\ TooManyItems) =>
      /\ Len(result.graph) <= effectiveLimits.maxItems
      /\ Built = Range(SubSeq(ScopeElements, 1, effectiveLimits.maxItems))

\* C9 (when a limit failure is raised): the call throws only when the policy
\* is not truncate and limits are configured, and the failure names a finite
\* ceiling that the observed count exceeds; for maxItems, maxHtmlLength and
\* maxItemRefIds the document itself exceeds the ceiling.
C9_FailureOnlyOnBreachUnderFail ==
    pc = "failed" =>
      /\ opt.onLimit # "truncate"
      /\ ~opt.unlimited
      /\ error.code = "MICRODATA_LIMIT_EXCEEDED"
      /\ error.kind \in DOMAIN effectiveLimits
      /\ error.max = effectiveLimits[error.kind]
      /\ error.max # Infinity
      /\ error.actual > error.max
      /\ error.kind = "maxItems" => Len(ScopeElements) >= error.actual
      /\ error.kind = "maxHtmlLength" => doc.len = error.actual
      /\ error.kind = "maxItemRefIds" =>
           \E e \in Elems : hasItemscope(e) /\ Len(tokenize(doc.itemref[e])) = error.actual
      /\ error.kind = "maxTotalPropertyElements" => totalItempropSeen = error.max

\* a parse under truncate met more item-scope elements than maxItems allows
\* and returned a graph
C9_Witness ==
    /\ pc = "done"
    /\ opt.onLimit = "truncate"
    /\ TooManyItems
    /\ Len(result.graph) >= 1

\* C10 (result shaping): the call returns an empty structure when the graph
\* has no Item, the single Item itself, identifier attached, when there is
\* exactly one and alwaysGraph is false, and otherwise every Item of the
\* graph, in order, in a list under the graph key.
C10_ResultShape ==
    pc = "done" =>
      LET graph == [i \in DOMAIN nodeById |-> nodeById[i].node]
      IN  /\ Len(graph) = 0 => result = EmptyResult
          /\ (Len(graph) = 1 /\ ~opt.alwaysGraph) =>
               /\ result.kind = "item"
               /\ result.graph = graph
               /\ graph[1][IdKey] = Scalar(Prim(nodeById[1].id))
          /\ (Len(graph) > 1 \/ (Len(graph) = 1 /\ opt.alwaysGraph)) =>
               /\ result.kind = "graph"
               /\ result.graph = graph

\* a parse with alwaysGraph set returned a graph of exactly one Item
C10_Witness ==
    /\ pc = "done"
    /\ opt.alwaysGraph
    /\ Len(nodeById) = 1
    /\ result.kind = "graph"

\* the parse has collected its items and computed contextBase
Collected == pc \in {"build", "done", "overflow"}
\* the collected items that declare a type
TypedItems == {e \in Range(items) : DeclaredTypes(e) # {}}
\* the base of the first type token e declares
FirstBase(e) == getTypeBase(normalizeSchemaOrg(tokenize(doc.itemtype[e])[1]))
\* the bases of every type token the collected items declare
DeclaredBases ==
    {getTypeBase(normalizeSchemaOrg(t)) : t \in UNION {DeclaredTypes(e) : e \in Range(items)}}
\* the type values the graph holds
TypeValues == UNION {Range(ValuesAt(nodeById[n].node, TypeKey)) : n \in DOMAIN nodeById}

\* C11 as claimed (when a shared context is established): with compact
\* enabled, there is a context exactly when some item declares a type and the
\* first declared types of all items have one and the same base.
C11_ContextFromFirstTypes ==
    (Collected /\ opt.compact) =>
      (contextBase # Null <=>
         /\ TypedItems # {}
         /\ \E b \in {FirstBase(e) : e \in TypedItems} :
              b # Null /\ \A e \in TypedItems : FirstBase(e) = b)

\* C11 as amended: with compact enabled, there is a context exactly when some
\* collected item declares a type and every type every collected item declares
\* has one and the same base; the result then carries the context, and
\* otherwise carries none and every type it holds is a declared identifier in
\* full (canonical) form.  Without compact there is never a context.
C11_ContextFromAllTypes ==
    /\ Collected =>
         (contextBase # Null <=>
            /\ opt.compact
            /\ DeclaredBases # {}
            /\ \E b \in DeclaredBases : b # Null /\ DeclaredBases = {b})
    /\ (pc = "done" /\ result.kind # "empty") =>
         /\ result.context # Null <=> contextBase # Null
         /\ contextBase = Null =>
              \A v \in TypeValues :
                \E e \in Built : \E t \in DeclaredTypes(e) : v = Prim(normalizeSchemaOrg(t))

\* a parse with compact enabled returned, without a context, a graph of typed
\* items whose first declared types all have the base http://ex.org/v#
C11_Witness ==
    /\ pc = "done"
    /\ opt.compact
    /\ result.context = Null
    /\ Cardinality(TypedItems) >= 2
    /\ \A e \in TypedItems : FirstBase(e) = SubSeq(ExA, 1, 7)
    /\ \A v \in TypeValues : v \in {Prim(ExA), Prim(OtherB)}

\* e declares no identifier
IdLess(e) == ~Truthy(doc.itemid[e])
\* the id-less elements among the first n getItemId calls
IdLessUpTo(n) == {idCalls[j].el : j \in {k \in 1..n : IdLess(idCalls[k].el)}}
\* the position of the first getItemId call on e
FirstCall(e) ==
    CHOOSE i \in DOMAIN idCalls :
      idCalls[i].el = e /\ \A j \in DOMAIN idCalls : idCalls[j].el = e => i <= j
\* the number in the synthesized identifier of the resolved id-less element e
BlankNumber(e) == CHOOSE k \in 1..9 : elementToId[e] = <<"_:b">> \o NumStr(k)
\* e is built by the top-level loop only: it declares no property name
TopLevelOnly(e) == hasItemscope(e) /\ getPropertyNames(e) = <<>>
\* the item-scope elements that contribute a property to e
NestedItemsOf(e) ==
    {p \in Range(collectPropertyElements(e).ordered) :
        hasItemscope(p) /\ getPropertyNames(p) # <<>>}

\* C12 (numbering of synthesized identifiers): every getItemId call on an
\* id-less element returns "_:b" followed by the number of distinct id-less
\* elements resolved up to the element's first call, so the numbers are 1, 2,
\* ... without gaps and the counter is the number of id-less elements
\* resolved; elements with a declared identifier take no number.  Numbers
\* follow build order: top-level items in document order, and an item nested
\* as a property is numbered after its container and before every top-level
\* item that follows the container.
C12_BlankNumbering ==
    /\ \A i \in DOMAIN idCalls :
         IdLess(idCalls[i].el) =>
           idCalls[i].id =
             <<"_:b">> \o NumStr(Cardinality(IdLessUpTo(FirstCall(idCalls[i].el))))
    /\ blankCounter = Cardinality(IdLessUpTo(Len(idCalls)))
    /\ pc = "done" =>
         /\ \A e \in Built : \A f \in Built :
              (IdLess(e) /\ IdLess(f) /\ TopLevelOnly(e) /\ TopLevelOnly(f) /\ e < f)
                => BlankNumber(e) < BlankNumber(f)
         /\ \A e \in Built : \A p \in NestedItemsOf(e) :
              IdLess(p) =>
                /\ IdLess(e) => BlankNumber(e) < BlankNumber(p)
                /\ \A g \in Built :
                     (IdLess(g) /\ TopLevelOnly(g) /\ e < g)
                       => BlankNumber(p) < BlankNumber(g)

\* a parse has numbered an item nested as a property before an item that
\* precedes it in the document, has resolved the nested item a second time,
\* and has met an element with a declared identifier
C12_Witness ==
    /\ pc = "done"
    /\ \E p \in Built : \E g \in Built :
         /\ IdLess(p) /\ IdLess(g) /\ g < p
         /\ BlankNumber(p) < BlankNumber(g)
         /\ Cardinality({i \in DOMAIN idCalls : idCalls[i].el = p}) = 2
    /\ \E x \in Built : ~IdLess(x)

\* the property keys of a node: every key but "@id" and "@type"
PropertyKeys(node) == DOMAIN node \ {IdKey, TypeKey}

\* C13 (empty values are dropped): no build merges an empty value, and no Item
\* holds an empty string under a property key, whatever the kind of the
\* contributing element (attribute absent or empty, text empty or blank).
C13_NoEmptyValue ==
    /\ \A i \in DOMAIN addLog : addLog[i].value # Prim(EmptyStr)
    /\ \A n \in DOMAIN nodeById : \A k \in PropertyKeys(nodeById[n].node) :
         Prim(EmptyStr) \notin Range(nodeById[n].node[k].vals)

\* p is a media, link or object element whose value is its URL attribute
UrlElement(p) == doc.tag[p] \in UrlTags /\ ~hasItemscope(p)
\* the URL attribute of p is a protocol-relative reference
ProtocolRelative(p) ==
    getAttribute(p) # Null /\ StartsWith(getAttribute(p), <<"/", "/">>)

\* C14 (protocol-relative references): a media, link or object element whose
\* URL attribute starts with "//" contributes a value only when
\* allowProtocolRelative or allowUnsafeSchemes is set, with or without a base
\* URL.
C14_ProtocolRelativeRejected ==
    \A i \in DOMAIN addLog :
      (UrlElement(addLog[i].src) /\ ProtocolRelative(addLog[i].src))
        => (opt.urlPolicy.allowProtocolRelative \/ opt.urlPolicy.allowUnsafeSchemes)

\* C15 (scheme allow-list): with allowUnsafeSchemes false, every value a
\* media, link or object element contributes that is an absolute URL has a
\* scheme of allowedSchemes, and so has every such value an Item holds; an
\* element whose value the policy rejects contributes nothing, and the parse
\* throws no error.
C15_SchemesAllowed ==
    /\ pc # "failed" /\ error = NoError
    /\ ~opt.urlPolicy.allowUnsafeSchemes =>
         /\ \A i \in DOMAIN addLog :
              (UrlElement(addLog[i].src) /\ isAbsoluteUrl(addLog[i].value.s))
                => Head(addLog[i].value.s) \in opt.urlPolicy.allowedSchemes
         /\ \A n \in DOMAIN nodeById : \A k \in PropertyKeys(nodeById[n].node) :
              \A v \in Range(nodeById[n].node[k].vals) :
                (v.k = "prim" /\ isAbsoluteUrl(v.s))
                  => Head(v.s) \in opt.urlPolicy.allowedSchemes
    /\ \A i \in DOMAIN addLog :
         UrlElement(addLog[i].src) =>
           /\ PlainValue(addLog[i].src) # Null
           /\ addLog[i].value = Prim(PlainValue(addLog[i].src))

\* a parse that allows https only has returned an Item that holds the https
\* URL of one element, after it dropped a javascript: URL and a relative URL
\* that the base URL resolved to http
C15_Witness ==
    /\ pc = "done"
    /\ opt.urlPolicy.allowedSchemes = {"https:"}
    /\ parsedBaseUrl = SiteBase
    /\ \E p \in Elems : \E q \in Elems : \E r \in Elems :
         /\ doc.attr[p] = <<"javascript:", "x">>
         /\ doc.attr[q] = <<"rel">>
         /\ doc.attr[r] = <<"https:", "/", "/", "ok", "/", "x">>
         /\ NearestScope(parentElement(p)) = Root
         /\ NearestScope(parentElement(q)) = Root
         /\ NearestScope(parentElement(r)) = Root
         /\ NodeOf(Root)[<<"a">>] = Scalar(Prim(doc.attr[r]))

\* C16 (legacy vocabulary root): no type identifier and no property key of a
\* returned Item starts with http://schema.org/, with compaction on or off.
C16_NoLegacyPrefix ==
    pc = "done" =>
      \A n \in DOMAIN result.graph :
        /\ \A v \in Range(ValuesAt(result.graph[n], TypeKey)) :
             ~StartsWith(v.s, schemaOrgHttp)
        /\ \A k \in PropertyKeys(result.graph[n]) : ~StartsWith(k, schemaOrgHttp)

\* C17 (types of an Item): the "@type" of every Item is a scalar when it holds
\* one type identifier, and otherwise a list of at least two identifiers, no
\* two of which are equal.
C17_TypesScalarOrUnique ==
    \A n \in DOMAIN nodeById :
      Has(nodeById[n].node, TypeKey) =>
        LET t == nodeById[n].node[TypeKey]
        IN  /\ t.arr <=> Len(t.vals) >= 2
            /\ \A i \in DOMAIN t.vals : \A j \in DOMAIN t.vals :
                 t.vals[i] = t.vals[j] => i = j

\* the number of item-scope elements among e and its ancestors
ScopeDepth(e) == Cardinality({a \in Ancestors(e) \cup {e} : hasItemscope(a)})
\* the deepest nesting of item-scope elements in the document
MaxScopeDepth ==
    CHOOSE d \in 0..doc.n :
      /\ \A e \in Elems : ScopeDepth(e) <= d
      /\ d = 0 \/ \E e \in Elems : ScopeDepth(e) = d

\* C18 (recursion depth): the nesting of buildItem invocations never exceeds
\* the deepest nesting of item-scope elements in the document, and the
\* recursion never runs on until the call stack is exhausted.
C18_DepthBoundedByNesting ==
    /\ maxDepthSeen <= MaxScopeDepth
    /\ pc # "overflow"

\* the elements whose id is a token of e's itemref
ListedBy(e) == {r \in Elems : doc.id[r] \in Range(doc.itemref[e])}
\* r lies outside e's subtree
Elsewhere(r, e) == r # e /\ e \notin Ancestors(r)
\* the value a build reads from p: the reference to p's Item when p carries
\* itemscope, its plain value otherwise
ValueRead(p) ==
    IF ~hasItemscope(p) THEN ValueOfElement(p)
    ELSE IF p \in Built THEN RefTo(NodeOf(p)[IdKey]) ELSE NullValue
\* the elements of e's subtree that contribute to e under key k
SubtreeProperties(e, k) ==
    {p \in Elems : /\ e \in Ancestors(p)
                   /\ NearestScope(parentElement(p)) = e
                   /\ k \in KeysOf(p, e)
                   /\ ValueRead(p) # NullValue}
\* the position of value v in the sequence vals, 0 when absent
IndexOf(vals, v) ==
    IF v \in Range(vals) THEN CHOOSE i \in DOMAIN vals : vals[i] = v ELSE 0
\* e's Item holds r's value under each of r's names, placed among the values
\* of e's in-subtree properties as document order places r among them
HoldsInOrder(e, r) ==
    \A k \in KeysOf(r, e) :
      LET vals == ValuesAt(NodeOf(e), k)
      IN  /\ ValueRead(r) \in Range(vals)
          /\ \A p \in SubtreeProperties(e, k) :
               /\ ValueRead(p) \in Range(vals)
               /\ p < r <=> IndexOf(vals, ValueRead(p)) < IndexOf(vals, ValueRead(r))
\* e lists a property-declaring element r that lies elsewhere and has a value
ListsProperty(e, r) ==
    /\ r \in ListedBy(e)
    /\ Elsewhere(r, e)
    /\ getPropertyNames(r) # <<>>
    /\ ValueRead(r) # NullValue

\* C19 as claimed (itemref): when the parse has returned, the Item of every
\* built element E holds the value of every property-declaring element R
\* with a value that E's itemref lists and that lies outside E's subtree,
\* under R's names and in document-order position among E's in-subtree
\* properties.
C19_ReferencedValueHeld ==
    pc = "done" =>
      \A e \in Built : \A r \in Elems : ListsProperty(e, r) => HoldsInOrder(e, r)

\* C19 as amended: the same, for every such R that has no item-scope
\* ancestor; an R inside the scope of another item contributes nothing to E.
C19_ReferencedValueHeldInScope ==
    pc = "done" =>
      \A e \in Built : \A r \in Elems :
        ListsProperty(e, r) =>
          IF NearestScope(parentElement(r)) = 0
          THEN HoldsInOrder(e, r)
          ELSE \A i \in DOMAIN addLog : ~(addLog[i].owner = e /\ addLog[i].src = r)

\* a parse has returned an Item that holds, before the value of a property of
\* its own subtree, the value of a listed element that precedes the item in
\* the document
C19_Witness ==
    /\ pc = "done"
    /\ \E e \in Built : \E r \in Elems : \E p \in Elems :
         /\ ListsProperty(e, r)
         /\ NearestScope(parentElement(r)) = 0
         /\ r < e
         /\ p \in SubtreeProperties(e, <<"a">>)
         /\ NodeOf(e)[<<"a">>] = Array(<<ValueRead(r), ValueRead(p)>>)

\* C20 (internal consistency of the result): in every returned result, also
\* after truncation, every reference an Item holds under a property key names
\* the identifier of an Item of the returned graph, and no two Items of the
\* graph have the same identifier.
C20_ResultConsistent ==
    pc = "done" =>
      LET graph == result.graph
      IN  /\ \A n \in DOMAIN graph : \A k \in PropertyKeys(graph[n]) :
               \A v \in Range(graph[n][k].vals) :
                 v.k = "ref" =>
                   /\ ~v.arr
                   /\ \E m \in DOMAIN graph : graph[m][IdKey] = Scalar(Prim(v.s))
          /\ \A n \in DOMAIN graph : \A m \in DOMAIN graph :
               graph[n][IdKey] = graph[m][IdKey] => n = m

-----------------------------------------------------------------------------
(* ProcessTracker *)

FinishIssued == {"finishOpen", "finishWrite", "finished", "settled"}

C22_FlagWhileRendering ==
    (\E c \in Calls : call[c].pc = "running") => getProgress = 1

\* C29: once every track call that was made has settled and none of their
\* writes failed, the last completed write is a finish write and the flag
\* file holds 0.
C29_FlagZeroWhenAllSettled ==
    (/\ \A c \in Calls : call[c].pc \in {"idle", "settled"}
     /\ \E c \in Calls : call[c].pc = "settled"
     /\ \A c \in Calls : call[c].out # WriteError)
      => (file = finish /\ lastWrite.value = finish /\ getProgress = 0)

\* every call settled with what its fn settled with, and the last write was
\* not made by the call that was made last in the numbering
C29_Witness ==
    /\ \A c \in Calls : call[c].pc = "settled" /\ call[c].reset /\ call[c].out = call[c].fn
    /\ lastWrite.call = 1
    /\ file = "0"

-----------------------------------------------------------------------------
(* Ceilings on contributing elements *)

Within(n, max) == max = Infinity \/ n <= max

\* elements with itemprop that the scan of root r for item e comes across:
\* r itself when it is a referenced root, and every descendant of r
MetUnder(r, e) ==
    Cardinality({d \in Range(Descendants(r)) : hasItemprop(d)})
    + (IF r # e /\ hasItemprop(r) THEN 1 ELSE 0)

RECURSIVE MetUnderAll(_, _)
MetUnderAll(roots, e) ==
    IF roots = <<>> THEN 0 ELSE MetUnder(Head(roots), e) + MetUnderAll(Tail(roots), e)

\* over the roots of e: e and the elements its itemref names
Met(e) == MetUnderAll(<<e>> \o getItemRefElements(e).els, e)

\* C23: a buildItem invocation adds to the parse-wide count every element
\* with itemprop its scan comes across, in scope or not, and as many to the
\* per-item count; it stops short of that only at a ceiling, and only under
\* truncate without failing; afterwards the per-item count is at most
\* maxPropertyElementsPerItem and the parse-wide count at most
\* maxTotalPropertyElements.
C23_CeilingAccounting ==
    [][invocations' = invocations + 1 =>
         LET el == idCalls'[Len(idCalls')].el
             counted == totalItempropSeen' - totalItempropSeen
             maxPer == effectiveLimits.maxPropertyElementsPerItem
             maxTotal == effectiveLimits.maxTotalPropertyElements
         IN  /\ counted >= 0 /\ counted <= Met(el)
             /\ Within(counted, maxPer)
             /\ Within(totalItempropSeen', maxTotal)
             /\ counted < Met(el) =>
                  /\ ~Within(counted + 1, maxPer) \/ ~Within(totalItempropSeen' + 1, maxTotal)
                  /\ pc' = "failed" <=> opt.onLimit = "throw"
             /\ counted = Met(el) => pc' # "failed"
             /\ pc' # "failed" => stack'[Len(stack')].seen = counted]_vars

\* an invocation has counted an element that its scope check excluded
C23_Witness ==
    /\ Running
    /\ \E i \in DOMAIN stack :
         LET f == stack[i]
         IN  /\ f.seen = Met(f.el)
             /\ \E d \in Range(Descendants(f.el)) :
                  hasItemprop(d) /\ ~isInScope(d, f.el)

-----------------------------------------------------------------------------
(* Unsafe property keys *)

\* C24: no Item holds a property under "__proto__", "constructor" or
\* "prototype"; addProperty with such a key returns the Item as it was, and
\* a step of buildItem that adds a value, or the reference to a nested Item,
\* under such keys only leaves every Item unchanged.
C24_UnsafeKeysRefused ==
    [][/\ \A i \in DOMAIN nodeById' :
            /\ DOMAIN nodeById'[i].node \cap unsafePropertyKeys = {}
            /\ \A k \in unsafePropertyKeys, v \in TestValues :
                 addProperty(nodeById'[i].node, k, v) = nodeById'[i].node
       /\ (/\ Running /\ stack # <<>> /\ Len(stack') = Len(stack)
           /\ stack'[Len(stack)].i = Top.i + 1
           /\ KeysOf(Top.props[Top.i], Top.el) \subseteq unsafePropertyKeys)
            => nodeById' = nodeById
       /\ (/\ Running /\ Len(stack) >= 2 /\ Len(stack') = Len(stack) - 1
           /\ LET caller == stack[Len(stack) - 1]
              IN  KeysOf(caller.props[caller.i], caller.el) \subseteq unsafePropertyKeys)
            => nodeById' = nodeById]_vars

\* a value was offered under the absolute name http://schema.org/constructor,
\* compacted to "constructor", to an Item that holds another property
C24_Witness ==
    \E i \in DOMAIN addLog :
      /\ contextBase # Null
      /\ getPropertyNames(addLog[i].src) = <<schemaOrgHttp \o <<"constructor">>>>
      /\ KeysOf(addLog[i].src, addLog[i].owner) = {<<"constructor">>}
      /\ Has(nodeById[addLog[i].node].node, <<"a">>)

-----------------------------------------------------------------------------
(* Identifiers of Items *)

\* C25: every Item of nodeById holds, under "@id", the one identifier string
\* it is registered under, in every state of the parse.
C25_IdentifierKept ==
    \A i \in DOMAIN nodeById :
      /\ Has(nodeById[i].node, IdKey)
      /\ nodeById[i].node[IdKey] = Scalar(Prim(nodeById[i].id))

\* C26: the Item of an element without a declared identifier is the Item of
\* no other element, with or without a declared identifier.
C26_SynthesizedItemOneElement ==
    \A e \in Built : \A f \in Built :
      (IdLess(e) /\ f # e) => elementToNode[f] # elementToNode[e]

\* the elements of the document that declare property names
PropertyElements == {e \in Elems : hasItemprop(e)}

\* C27: the parse-wide count never exceeds the number of elements with
\* itemprop in the document, and under the fail policy a document with at
\* most maxTotalPropertyElements such elements raises no
\* maxTotalPropertyElements failure.
C27_TotalCountsDistinctElements ==
    /\ totalItempropSeen <= Cardinality(PropertyElements)
    /\ (/\ opt.onLimit = "throw"
        /\ Within(Cardinality(PropertyElements),
                  effectiveLimits.maxTotalPropertyElements))
         => ~(pc = "failed" /\ error.kind = "maxTotalPropertyElements")

-----------------------------------------------------------------------------
(* Termination *)

\* C28: with a finite maxTotalPropertyElements the parse never runs its
\* recursion out of call stack, whatever the itemref of the document, and it
\* makes at most as many buildItem invocations as there are discovered items
\* plus the ceiling, so it ends by returning or by a limit failure.
C28_TerminatesWithinCeiling ==
    effectiveLimits.maxTotalPropertyElements # Infinity =>
      /\ pc # "overflow"
      /\ invocations <= Len(items) + effectiveLimits.maxTotalPropertyElements

-----------------------------------------------------------------------------
(* Rebuilding *)

\* the invocation at position i of the stack builds an element that an
\* earlier invocation, which has returned, built
Rebuilds(i) ==
    \E j \in 1..(stack[i].inv - 1) :
      /\ idCalls[j].el = stack[i].el
      /\ \A k \in DOMAIN stack : stack[k].inv # j

\* C30: no step taken inside a second buildItem of an element changes the
\* graph (the Items, their types, their property values and the order of
\* these) or allocates an identifier.
C30_RebuildIdempotent ==
    [][(pc' = "build" /\ \E i \in DOMAIN stack' : Rebuilds(i)')
         => (nodeById' = nodeById /\ blankCounter' = blankCounter)]_vars

====
